---- MODULE Spec2Model ----
(***************************************************************************)
(* Model of src/cargo/util/errors.rs: the CargoError capability, the       *)
(* values that implement it (ConcreteCargoError, ProcessError, the IoError *)
(* and TomlError adapters, Box<CargoError>), the chaining operations and   *)
(* the CliError boundary.                                                  *)
(*                                                                         *)
(* An error value is a record; an Option<T> is a sequence of length 0 or   *)
(* 1; a Box<CargoError> is a record of kind "Box" that owns its content in *)
(* the field inner, so an owned cause chain is a nested value and a move   *)
(* keeps the value.                                                        *)
(*                                                                         *)
(* val is the error value a call site holds, res the Result<T, E> in       *)
(* flight, cli the CliError at the program boundary, last what the last    *)
(* operation was given.                                                    *)
(***************************************************************************)
EXTENDS Integers, Sequences, FiniteSets, TLC

VARIABLES val, res, cli, last

vars == <<val, res, cli, last>>

\* The longest cause chain built, and the number of error values held
\* beyond which no fresh one is made.
MaxNodes == 3

\* Texts handed to the constructors by call sites.
ErrorMsgs == {"parse failure: line 4"}
HumanMsgs == {"missing Cargo.toml"}
InternalMsgs == {"invalid manifest"}
ProcessMsgs == {"could not execute"}
Details == {"at line 4"}
Commands == {"cargo build"}
\* Option<ProcessExit>: None, Some(ExitStatus(i)), Some(ExitSignal(i)).
Statuses == {<<>>, <<[tag |-> "ExitStatus", i |-> 101]>>}
\* Option<ProcessOutput>.
Outputs == {<<>>}
\* Renderings (to_str) of the foreign failures.
IoTexts == {"file not found"}
TomlTexts == {"expected equals"}
\* Exit codes and success payloads used by call sites.
Codes == {1, 101}
OkVals == {0, 1}

None == <<>>
Some(x) == <<x>>

NoResult == [tag |-> "None", ok |-> 0, err |-> None]

Blank ==
  [kind |-> "", description |-> "", msg |-> "", to_str |-> "",
   command |-> "", exit |-> None, output |-> None, detail |-> None,
   cause |-> None, is_human |-> FALSE, inner |-> None]

\* struct ConcreteCargoError { description, detail, cause, is_human }
ConcreteCargoError(d, dt, c, hu) ==
  [Blank EXCEPT !.kind = "Concrete", !.description = d, !.detail = dt,
                !.cause = c, !.is_human = hu]

\* struct ProcessError { msg, command, exit, output, detail, cause }
ProcessError(m, cmd, ex, out, dt, c) ==
  [Blank EXCEPT !.kind = "Process", !.msg = m, !.command = cmd, !.exit = ex,
                !.output = out, !.detail = dt, !.cause = c]

\* An IoError or a TomlError: only its rendering is consumed.
IoError(t) == [Blank EXCEPT !.kind = "Io", !.to_str = t]
TomlError(t) == [Blank EXCEPT !.kind = "Toml", !.to_str = t]

\* box x as Box<CargoError>
Box(x) == [Blank EXCEPT !.kind = "Box", !.inner = Some(x)]

IsBox(v) == v.kind = "Box"

----------------------------------------------------------------------------
(* trait CargoError, as implemented by each kind of value *)

RECURSIVE description(_)
description(e) ==
  CASE e.kind = "Box" -> description(e.inner[1])
    [] e.kind = "Process" ->
         LET exit == IF e.exit = None THEN "never executed"
                     ELSE ToString(e.exit[1].i)
         IN  e.msg \o " (status=" \o exit \o ")"
    [] e.kind = "Concrete" -> e.description
    [] OTHER -> e.to_str

RECURSIVE detail(_)
detail(e) ==
  CASE e.kind = "Box" -> detail(e.inner[1])
    [] e.kind \in {"Concrete", "Process"} -> e.detail
    [] OTHER -> None

\* Option<&CargoError>: the content of the box the cause field owns.
RECURSIVE cause(_)
cause(e) ==
  CASE e.kind = "Box" -> cause(e.inner[1])
    [] e.kind \in {"Concrete", "Process"} ->
         IF e.cause = None THEN None ELSE Some(e.cause[1].inner[1])
    [] OTHER -> None

\* is_human with ProcessError answering true instead of the default.
RECURSIVE is_human_process(_)
is_human_process(e) ==
  CASE e.kind = "Box" -> is_human_process(e.inner[1])
    [] e.kind = "Concrete" -> e.is_human
    [] e.kind = "Process" -> TRUE
    [] OTHER -> FALSE

RECURSIVE is_human(_)
is_human(e) ==
  CASE e.kind = "Box" -> is_human(e.inner[1])
    [] e.kind = "Concrete" -> e.is_human
    [] OTHER -> FALSE

\* concrete that snapshots the value alone and leaves its causes out.
concrete_shallow(e) ==
  ConcreteCargoError(description(e), detail(e), None, is_human(e))

\* fn concrete(&self): the snapshot of e and, recursively, of its causes.
RECURSIVE concrete(_)
concrete(e) ==
  ConcreteCargoError(
    description(e),
    detail(e),
    IF cause(e) = None THEN None ELSE Some(Box(concrete(cause(e)[1]))),
    is_human(e))

\* box_error without the override for Box<CargoError>: always box self.
box_error_default(e) == Box(e)

\* fn box_error(self): the default of the trait, overridden for
\* Box<CargoError>, which returns itself.
box_error(e) == IF IsBox(e) THEN e ELSE Box(e)

----------------------------------------------------------------------------
(* free functions *)

error(m) == Box(ConcreteCargoError(m, None, None, FALSE))

human(m) == Box(ConcreteCargoError(m, None, None, TRUE))

internal_error(m, d) == Box(ConcreteCargoError(m, Some(d), None, FALSE))

process_error(m, cmd, status, output) ==
  ProcessError(m, cmd, status, output, None, None)

\* chain taking the human flag from original instead of update.
chain_flag_original(original, update) ==
  Box([concrete(update) EXCEPT !.cause = Some(original),
                               !.is_human = is_human(original)])

\* chain that keeps the cause update already has.
chain_keep_cause(original, update) ==
  Box([concrete(update) EXCEPT
         !.cause = IF @ = None THEN Some(original) ELSE @])

chain(original, update) ==
  Box([concrete(update) EXCEPT !.cause = Some(original)])

\* The update builder handed to chain_error: a closure making a fresh error.
Callbacks ==
  {[fn |-> "error", text |-> m] : m \in ErrorMsgs}
    \cup {[fn |-> "human", text |-> m] : m \in HumanMsgs}
    \cup {[fn |-> "internal_error", text |-> m] : m \in InternalMsgs}
    \cup {[fn |-> "process_error", text |-> m] : m \in ProcessMsgs}

callback(cb) ==
  CASE cb.fn = "error" -> error(cb.text)
    [] cb.fn = "human" -> human(cb.text)
    [] cb.fn = "internal_error" ->
         internal_error(cb.text, CHOOSE d \in Details : TRUE)
    [] OTHER ->
         process_error(cb.text, CHOOSE c \in Commands : TRUE,
                       Some([tag |-> "ExitSignal", i |-> 9]), None)

\* chain_error that builds the update before it looks at the Result.
chain_error_eager(r, cb) ==
  LET update == concrete(callback(cb))
  IN  IF r.tag = "Ok"
      THEN [res |-> r, calls |-> 1]
      ELSE [res   |-> [r EXCEPT !.err =
                         Some(Box([update EXCEPT
                                     !.cause = Some(box_error(r.err[1]))]))],
            calls |-> 1]

\* impl ChainError for Result<T, E>: the new Result and the number of times
\* the update builder ran.
chain_error(r, cb) ==
  IF r.tag = "Ok"
  THEN [res |-> r, calls |-> 0]
  ELSE [res   |-> [r EXCEPT !.err =
                     Some(Box([concrete(callback(cb)) EXCEPT
                                 !.cause = Some(box_error(r.err[1]))]))],
        calls |-> 1]

\* impl BoxError for Result<T, E>
box_error_result(r) ==
  IF r.tag = "Ok" THEN r ELSE [r EXCEPT !.err = Some(box_error(r.err[1]))]

----------------------------------------------------------------------------
(* impl CliError *)

UnknownError == "An unknown error occurred"

\* from_boxed without the is_human test: the error as given.
CliError_from_boxed_asis(e, code) == [error |-> e, exit_code |-> code]

\* from_boxed with the arguments of chain exchanged.
CliError_from_boxed_swapped(e, code) ==
  [error     |-> IF is_human(e) THEN e ELSE chain(human(UnknownError), e),
   exit_code |-> code]

\* from_boxed that wraps every error, human or not.
CliError_from_boxed_always(e, code) ==
  [error |-> chain(e, human(UnknownError)), exit_code |-> code]

CliError_from_boxed(e, code) ==
  [error     |-> IF is_human(e) THEN e ELSE chain(e, human(UnknownError)),
   exit_code |-> code]

CliError_from_error(e, code) == CliError_from_boxed(Box(e), code)

CliError_new(text, code) == CliError_from_boxed(human(text), code)

----------------------------------------------------------------------------
(* the values in play *)

\* The number of error values e owns, itself included (boxes apart).
RECURSIVE Size(_)
Size(e) ==
  IF e.kind = "Box" THEN Size(e.inner[1])
  ELSE 1 + (IF e.cause = None THEN 0 ELSE Size(e.cause[1]))

SizeOpt(o) == IF o = None THEN 0 ELSE Size(o[1])

Held == SizeOpt(val) + SizeOpt(res.err)

NoLast ==
  [op |-> "none", code |-> 0, text |-> "", arg |-> None, upd |-> None,
   pre |-> NoResult, calls |-> 0]

Init ==
  /\ val = None
  /\ res = NoResult
  /\ cli = None
  /\ last = NoLast

----------------------------------------------------------------------------
(* the operations *)

Error ==
  \E m \in ErrorMsgs :
    /\ val = None /\ cli = None /\ Held < MaxNodes
    /\ val' = Some(error(m))
    /\ last' = NoLast
    /\ UNCHANGED <<res, cli>>

Human ==
  \E m \in HumanMsgs :
    /\ val = None /\ cli = None /\ Held < MaxNodes
    /\ val' = Some(human(m))
    /\ last' = NoLast
    /\ UNCHANGED <<res, cli>>

InternalError ==
  \E m \in InternalMsgs, d \in Details :
    /\ val = None /\ cli = None /\ Held < MaxNodes
    /\ val' = Some(internal_error(m, d))
    /\ last' = NoLast
    /\ UNCHANGED <<res, cli>>

ProcessErrorNew ==
  \E m \in ProcessMsgs, c \in Commands, st \in Statuses, out \in Outputs :
    /\ val = None /\ cli = None /\ Held < MaxNodes
    /\ val' = Some(process_error(m, c, st, out))
    /\ last' = NoLast
    /\ UNCHANGED <<res, cli>>

\* A native I/O failure arrives.
IoFailure ==
  \E t \in IoTexts :
    /\ val = None /\ cli = None /\ Held < MaxNodes
    /\ val' = Some(IoError(t))
    /\ last' = NoLast
    /\ UNCHANGED <<res, cli>>

\* A TOML parse failure arrives.
TomlFailure ==
  \E t \in TomlTexts :
    /\ val = None /\ cli = None /\ Held < MaxNodes
    /\ val' = Some(TomlError(t))
    /\ last' = NoLast
    /\ UNCHANGED <<res, cli>>

\* A call site fills the public cause field of the ProcessError it holds
\* with the boxed error of the failed Result.
ProcessCause ==
  /\ val # None /\ val[1].kind = "Process" /\ val[1].cause = None
  /\ res.tag = "Err" /\ IsBox(res.err[1]) /\ Size(res.err[1]) < MaxNodes
  /\ val' = Some([val[1] EXCEPT !.cause = res.err])
  /\ res' = NoResult
  /\ last' = NoLast
  /\ UNCHANGED cli

\* Ok(t)
OkResult ==
  \E t \in OkVals :
    /\ res = NoResult /\ cli = None
    /\ res' = [tag |-> "Ok", ok |-> t, err |-> None]
    /\ last' = NoLast
    /\ UNCHANGED <<val, cli>>

\* Err(val)
ErrResult ==
  /\ res = NoResult /\ val # None
  /\ res' = [tag |-> "Err", ok |-> 0, err |-> val]
  /\ val' = None
  /\ last' = NoLast
  /\ UNCHANGED cli

\* match res { Err(e) => e }
TakeErr ==
  /\ res.tag = "Err" /\ val = None
  /\ val' = res.err
  /\ res' = NoResult
  /\ last' = NoLast
  /\ UNCHANGED cli

\* to_error / FromError: into Box<CargoError> through box_error, or into
\* the same type unchanged (from_error! for IoError, TomlError,
\* ProcessError).
ToError ==
  \E target \in {"Box", "Self"} :
    /\ val # None
    /\ target = "Self" => val[1].kind \in {"Io", "Toml", "Process"}
    /\ val' = IF target = "Box" THEN Some(box_error(val[1])) ELSE val
    /\ last' = NoLast
    /\ UNCHANGED <<res, cli>>

Concrete ==
  /\ res.tag = "Err" /\ val = None
  /\ val' = Some(concrete(res.err[1]))
  /\ last' = [NoLast EXCEPT !.op = "concrete", !.arg = res.err, !.pre = res]
  /\ UNCHANGED <<res, cli>>

Chain ==
  /\ res.tag = "Err" /\ IsBox(res.err[1]) /\ val # None
  /\ Size(res.err[1]) < MaxNodes
  /\ val' = Some(chain(res.err[1], val[1]))
  /\ res' = NoResult
  /\ last' = [NoLast EXCEPT !.op = "chain", !.arg = res.err, !.upd = val]
  /\ UNCHANGED cli

ChainError ==
  \E cb \in Callbacks :
    /\ res # NoResult
    /\ res.tag = "Err" => Size(res.err[1]) < MaxNodes
    /\ LET c == chain_error(res, cb)
       IN  /\ res' = c.res
           /\ last' = [NoLast EXCEPT
                         !.op = "chain_error", !.arg = res.err, !.pre = res,
                         !.calls = c.calls,
                         !.upd = IF c.calls = 0 THEN None
                                 ELSE Some(callback(cb))]
    /\ UNCHANGED <<val, cli>>

BoxError ==
  /\ res # NoResult
  /\ res' = box_error_result(res)
  /\ last' = [NoLast EXCEPT !.op = "box_error", !.arg = res.err, !.pre = res]
  /\ UNCHANGED <<val, cli>>

CliNew ==
  \E text \in HumanMsgs \cup ErrorMsgs, code \in Codes :
    /\ cli = None /\ val = None /\ res = NoResult
    /\ cli' = Some(CliError_new(text, code))
    /\ last' = [NoLast EXCEPT !.op = "new", !.text = text, !.code = code]
    /\ UNCHANGED <<val, res>>

CliFromError ==
  \E code \in Codes :
    /\ cli = None /\ val # None /\ res = NoResult
    /\ cli' = Some(CliError_from_error(val[1], code))
    /\ val' = None
    /\ last' = [NoLast EXCEPT !.op = "from_error", !.arg = val, !.code = code]
    /\ UNCHANGED res

CliFromBoxed ==
  \E code \in Codes :
    /\ cli = None /\ val # None /\ IsBox(val[1]) /\ res = NoResult
    /\ cli' = Some(CliError_from_boxed(val[1], code))
    /\ val' = None
    /\ last' = [NoLast EXCEPT !.op = "from_boxed", !.arg = val, !.code = code]
    /\ UNCHANGED res

\* A holder lets go of what it owns.
DropVal ==
  /\ val # None
  /\ val' = None
  /\ last' = NoLast
  /\ UNCHANGED <<res, cli>>

DropRes ==
  /\ res # NoResult
  /\ res' = NoResult
  /\ last' = NoLast
  /\ UNCHANGED <<val, cli>>

DropCli ==
  /\ cli # None
  /\ cli' = None
  /\ last' = NoLast
  /\ UNCHANGED <<val, res>>

Next ==
  \/ Error \/ Human \/ InternalError \/ ProcessErrorNew
  \/ IoFailure \/ TomlFailure \/ ProcessCause
  \/ OkResult \/ ErrResult \/ TakeErr \/ ToError
  \/ Concrete \/ Chain \/ ChainError \/ BoxError
  \/ CliNew \/ CliFromError \/ CliFromBoxed
  \/ DropVal \/ DropRes \/ DropCli

Spec == Init /\ [][Next]_vars

\* The same behaviours, in which every holder lets go in the end and call
\* sites keep reporting process failures and handing errors to the boundary.
FairSpec ==
  /\ Spec
  /\ WF_vars(DropVal) /\ WF_vars(DropRes) /\ WF_vars(DropCli)
  /\ SF_vars(ProcessErrorNew) /\ SF_vars(CliFromError)

----------------------------------------------------------------------------
(* what the properties read *)

\* e and the errors met by following cause() from it.
RECURSIVE ChainOf(_)
ChainOf(e) ==
  <<e>> \o (IF cause(e) = None THEN <<>> ELSE ChainOf(cause(e)[1]))

Causes(e) == Tail(ChainOf(e))

\* description, detail and human flag of each error of a sequence.
Obs(es) ==
  [i \in 1..Len(es) |->
     <<description(es[i]), detail(es[i]), is_human(es[i])>>]

\* The value behind the boxes.
RECURSIVE Content(_)
Content(e) == IF IsBox(e) THEN Content(e.inner[1]) ELSE e

Kinds(es) == {Content(es[i]).kind : i \in 1..Len(es)}

----------------------------------------------------------------------------
(* the properties *)

\* C1: the error of every CliError, whichever of new, from_error and
\* from_boxed built it and from whatever error, answers is_human() with true.
C1_CliErrorIsHuman == cli # None => is_human(cli[1].error)

C1_Witness ==
  /\ cli # None /\ last.op = "from_error"
  /\ ~is_human(last.arg[1]) /\ cause(last.arg[1]) # None

\* C2: from_boxed(e, c) of a non-human boxed e is described by the fixed
\* text, has a cause with the description of e, and carries exit code c.
C2_NonHumanIsWrapped ==
  (cli # None /\ last.op = "from_boxed" /\ ~is_human(last.arg[1])) =>
    /\ description(cli[1].error) = UnknownError
    /\ cause(cli[1].error) # None
    /\ description(cause(cli[1].error)[1]) = description(last.arg[1])
    /\ cli[1].error.inner[1].cause = last.arg
    /\ cli[1].exit_code = last.code

C2_Witness ==
  /\ cli # None /\ last.op = "from_boxed" /\ last.code = 101
  /\ last.arg = Some(error("parse failure: line 4"))

\* C3: from_boxed(e, c) of a human boxed e holds e itself, with no wrapper
\* on top and the same causes, and exit code c; new(text, c) holds
\* human(text) and c.
C3_HumanIsKept ==
  /\ (cli # None /\ last.op = "from_boxed" /\ is_human(last.arg[1])) =>
       /\ cli[1].error = last.arg[1]
       /\ cli[1].exit_code = last.code
  /\ (cli # None /\ last.op = "new") =>
       /\ cli[1].error = human(last.text)
       /\ cli[1].exit_code = last.code

C3_Witness ==
  /\ cli # None /\ last.op = "from_boxed" /\ last.code = 1
  /\ is_human(last.arg[1]) /\ cause(last.arg[1]) # None

\* r has a cause described as original is, and shows what update shows.
C4_Outer(r, original, update) ==
  /\ cause(r) # None
  /\ description(cause(r)[1]) = description(original)
  /\ description(r) = description(update)
  /\ detail(r) = detail(update)
  /\ is_human(r) = is_human(update)

\* C4: the result of chain(original, update), and the failure chain_error
\* makes of a failure carrying original with a builder returning update,
\* has a cause described as original is and is itself described, detailed
\* and flagged human as update is.
C4_ChainTakesUpdate ==
  /\ last.op = "chain" => C4_Outer(val[1], last.arg[1], last.upd[1])
  /\ (last.op = "chain_error" /\ last.pre.tag = "Err") =>
       /\ last.upd # None /\ res.tag = "Err"
       /\ C4_Outer(res.err[1], last.arg[1], last.upd[1])

C4_Witness ==
  /\ last.op = "chain"
  /\ is_human(last.arg[1]) /\ ~is_human(last.upd[1])
  /\ Content(last.upd[1]).kind = "Process"

\* C6: chain_error on a success returns that success and never runs the
\* update builder; the builder runs only on a failure.
C6_SuccessUntouched ==
  last.op = "chain_error" =>
    /\ last.pre.tag = "Ok" => (res = last.pre /\ last.calls = 0)
    /\ last.calls > 0 => last.pre.tag = "Err"

C6_Witness ==
  last.op = "chain_error" /\ last.pre.tag = "Ok" /\ last.pre.ok = 1

\* C7: box_error on a Result leaves a success alone, returns an already
\* boxed error as the same box, and changes neither description, detail,
\* human flag nor causes; a further box_error changes nothing at all.
C7_BoxErrorIdempotent ==
  last.op = "box_error" =>
    /\ box_error_result(res) = res
    /\ last.pre.tag = "Ok" => res = last.pre
    /\ last.pre.tag = "Err" =>
         /\ res.tag = "Err" /\ IsBox(res.err[1])
         /\ Obs(ChainOf(res.err[1])) = Obs(ChainOf(last.pre.err[1]))
         /\ IsBox(last.pre.err[1]) => res = last.pre

C7_Witness ==
  /\ last.op = "box_error" /\ last.pre.tag = "Err"
  /\ IsBox(last.pre.err[1]) /\ cause(last.pre.err[1]) # None

\* The errors held by the call site, a Result or a CliError.
HeldErrors ==
  {e \in {val, res.err} : e # None}
    \cup (IF cli = None THEN {} ELSE {Some(cli[1].error)})

HumanProcessError ==
  \E e \in HeldErrors :
    \E i \in 1..Len(ChainOf(e[1])) :
      /\ Content(ChainOf(e[1])[i]).kind = "Process"
      /\ is_human(ChainOf(e[1])[i])

\* from_error of a process failure showing the description of the failure.
ProcessShownAsIs ==
  /\ cli # None /\ last.op = "from_error"
  /\ Content(last.arg[1]).kind = "Process"
  /\ description(cli[1].error) = description(last.arg[1])

\* C8 as amended: no ProcessError answers is_human() with true, whatever
\* the call site gave it, and from_error of a process failure shows the
\* fixed text and keeps the failure as its cause.
C8_ProcessNeverHuman ==
  /\ ~HumanProcessError
  /\ (cli # None /\ last.op = "from_error"
        /\ Content(last.arg[1]).kind = "Process") =>
       /\ description(cli[1].error) = UnknownError
       /\ cause(cli[1].error) # None
       /\ description(cause(cli[1].error)[1]) = description(last.arg[1])

C8_Witness ==
  /\ cli # None /\ last.op = "from_error"
  /\ last.arg[1].kind = "Process" /\ last.arg[1].exit # None

\* C8 as stated: a ProcessError that answers is_human() with true can be
\* constructed, and from_error of it shows its own description.
C8_HumanProcessConstructible == <>(HumanProcessError \/ ProcessShownAsIs)

\* C9: concrete(v) is a ConcreteCargoError with the description, detail and
\* human flag of v and as many causes as v, each a ConcreteCargoError
\* described, detailed and flagged as the cause of v at its place; v is
\* unchanged, and the snapshot of the snapshot shows the same again.
C9_SnapshotFaithful ==
  last.op = "concrete" =>
    /\ val # None /\ res = last.pre /\ res.err = last.arg
    /\ Kinds(ChainOf(val[1])) = {"Concrete"}
    /\ Len(ChainOf(val[1])) = Len(ChainOf(last.arg[1]))
    /\ Obs(ChainOf(val[1])) = Obs(ChainOf(last.arg[1]))
    /\ Obs(ChainOf(concrete(val[1]))) = Obs(ChainOf(val[1]))

C9_Witness ==
  /\ last.op = "concrete"
  /\ Len(ChainOf(last.arg[1])) = MaxNodes
  /\ "Process" \in Kinds(ChainOf(last.arg[1]))

\* C10: the causes of chain(original, update), and of the failure
\* chain_error makes, are original itself followed by the causes of
\* original, each as it was; there is one more of them than original has,
\* however many update had.
C10_UpdateCausesDropped ==
  /\ last.op = "chain" =>
       /\ val[1].inner[1].cause = last.arg
       /\ Causes(val[1]) = ChainOf(last.arg[1].inner[1])
       /\ Len(Causes(val[1])) = 1 + Len(Causes(last.arg[1]))
  /\ (last.op = "chain_error" /\ last.pre.tag = "Err") =>
       /\ res.err[1].inner[1].cause = Some(box_error(last.arg[1]))
       /\ Len(Causes(res.err[1])) = 1 + Len(Causes(last.arg[1]))

C10_Witness ==
  /\ last.op = "chain"
  /\ Len(Causes(last.upd[1])) = 1 /\ Len(Causes(last.arg[1])) = 1
  /\ Causes(last.upd[1]) # Causes(last.arg[1])

====
